---------------------------- MODULE Spec2Model ----------------------------
(***************************************************************************)
(* Model of nuki-web-control (src/app.py): the two bridge helpers          *)
(* get_state / send_action, the Flask routes /api/state and /action/<cmd>,  *)
(* and the page script that reads /api/state (refreshState and the battery *)
(* extraction it uses).                                                    *)
(*                                                                         *)
(* Text is modelled as a sequence of fragments (a Python f-string is the   *)
(* concatenation of its literal pieces and its interpolated values), JSON  *)
(* values as tagged records, a Python exception by the set of classes it   *)
(* is an instance of.                                                      *)
(***************************************************************************)
EXTENDS Integers, Sequences, FiniteSets, TLC

VARIABLES
    TOKEN,        \* nuki.token of config.yaml, fixed at start-up
    wire,         \* every requests.get(...) issued so far, oldest first
    calls,        \* number of get_state / send_action calls made so far
    served,       \* number of entry-point requests served so far
    recognised,   \* number of /action/<cmd> dispatches whose cmd was in mapping
    cur           \* the request being served last: its input and what it produced

vars == <<TOKEN, wire, calls, served, recognised, cur>>

(***************************************************************************)
(* Bounds of the model.                                                    *)
(***************************************************************************)
MaxCalls == 2     \* entry-point requests served in one behaviour

(***************************************************************************)
(* Configuration (module level of app.py).                                 *)
(***************************************************************************)
Tokens == {"s3cr3tA", "s3cr3tB"}
BRIDGE_HOST == "127.0.0.1"
BRIDGE_PORT == "8080"
NUKI_ID == "123456789"
DEVICE_TYPE == "0"
DEFAULT_LANG == "en"
STATE_TIMEOUT == 10
ACTION_TIMEOUT == 20

(***************************************************************************)
(* JSON values, as resp.json() / res.json() deliver them.                  *)
(***************************************************************************)
Num(n) == [t |-> "num", n |-> n]
Str(s) == [t |-> "str", s |-> s]
Bool(b) == [t |-> "bool", b |-> b]
Null == [t |-> "null"]
Undefined == [t |-> "undef"]
Obj(o) == [t |-> "obj", o |-> o]
List(l) == [t |-> "list", l |-> l]
EmptyObj == Obj(<<>>)

IsObj(v) == v.t = "obj"

\* Truthiness of a value used as a condition, in the page script and in
\* Python: they differ on the empty object.
JsTruthy(v) ==
    CASE v.t = "num" -> v.n # 0
      [] v.t = "str" -> v.s # <<>>
      [] v.t = "bool" -> v.b
      [] v.t = "null" -> FALSE
      [] v.t = "undef" -> FALSE
      [] v.t = "obj" -> TRUE

PyTruthy(v) ==
    CASE v.t = "num" -> v.n # 0
      [] v.t = "str" -> v.s # <<>>
      [] v.t = "bool" -> v.b
      [] v.t = "null" -> FALSE
      [] v.t = "obj" -> DOMAIN v.o # {}

(***************************************************************************)
(* The requests library as app.py uses it.                                 *)
(***************************************************************************)
\* The classes an exception raised by requests.get / raise_for_status /
\* resp.json is an instance of.
ExcClasses(exc) ==
    CASE exc = "ConnectionError" ->
            {"ConnectionError", "RequestException", "Exception"}
      [] exc = "ConnectTimeout" ->
            {"ConnectTimeout", "ConnectionError", "Timeout",
             "RequestException", "Exception"}
      [] exc = "ReadTimeout" ->
            {"ReadTimeout", "Timeout", "RequestException", "Exception"}
      [] exc = "HTTPError" ->
            {"HTTPError", "RequestException", "Exception"}
      [] exc = "ChunkedEncodingError" ->
            {"ChunkedEncodingError", "RequestException", "Exception"}
      [] exc = "JSONDecodeError" ->
            {"JSONDecodeError", "InvalidJSONError", "RequestException",
             "Exception"}

IsInstance(exc, cls) == cls \in ExcClasses(exc)

\* Statuses the bridge may answer with, and str(status).
Statuses == {101, 200, 304, 404, 500}

StatusStr(s) ==
    CASE s = 101 -> "101"
      [] s = 200 -> "200"
      [] s = 304 -> "304"
      [] s = 404 -> "404"
      [] s = 500 -> "500"

ActionStr(a) ==
    CASE a = 1 -> "1"
      [] a = 2 -> "2"
      [] a = 3 -> "3"
      [] a = 4 -> "4"
      [] a = 5 -> "5"

\* Response.raise_for_status(): raises HTTPError for 4xx and 5xx only.
RaiseForStatus_ServerOnly(status) == 500 <= status /\ status < 600

RaiseForStatus(status) == 400 <= status /\ status < 600

\* What the bridge does with one request: whether and how fast it accepts
\* the connection, how fast it answers, and the answer.
NoReply == [status |-> 0, parse |-> FALSE]
Reply(status, body) == [status |-> status, parse |-> TRUE, json |-> body]
Garbled(status) == [status |-> status, parse |-> FALSE]

Behaviour(n, c, r, s, p) ==
    [net |-> n, connect |-> c, read |-> r, stream |-> s, reply |-> p]

\* requests.get(url, params, timeout): the event the call ends with.
\* The timeout applies to the connect phase and to the read phase.
RequestsGet(timeout, b) ==
    IF b.net = "refused" THEN [raise |-> "ConnectionError"]
    ELSE IF b.connect > timeout THEN [raise |-> "ConnectTimeout"]
    ELSE IF b.read > timeout THEN [raise |-> "ReadTimeout"]
    ELSE IF b.stream = "broken" THEN [raise |-> "ChunkedEncodingError"]
    ELSE [raise |-> "none", resp |-> b.reply]

\* The URL requests prepares from the base URL and params.
RequestUrl(path, extra) ==
    <<"http://", BRIDGE_HOST, ":", BRIDGE_PORT, path,
      "?nukiId=", NUKI_ID, "&deviceType=", DEVICE_TYPE>>
    \o extra \o <<"&token=", TOKEN>>

\* str(e) of the HTTPError raised by raise_for_status.
HttpErrorText(status, url) ==
    <<StatusStr(status), " Error for url: ">> \o url

\* The try block after requests.get returned or raised: raise_for_status,
\* then resp.json().  The exception in flight, or "none".
Raised(ev) ==
    IF ev.raise # "none" THEN ev.raise
    ELSE IF RaiseForStatus(ev.resp.status) THEN "HTTPError"
    ELSE IF ~ev.resp.parse THEN "JSONDecodeError"
    ELSE "none"

ErrorDict(msg) == Obj([error |-> Str(msg)])

(***************************************************************************)
(* Bridge helpers.                                                         *)
(***************************************************************************)
StateRequest == [path |-> "/lockState", action |-> 0]
ActionRequest(a) == [path |-> "/lockAction", action |-> a]

StateUrl == RequestUrl("/lockState", <<>>)
ActionUrl(a) == RequestUrl("/lockAction", <<"&action=", ActionStr(a)>>)

\* The except clauses of get_state, in the order written.
get_state_except_LeakUrl(exc, resp) ==
    IF IsInstance(exc, "ConnectionError") THEN
        [branch |-> "ConnectionError", value |-> ErrorDict(
            <<"Bridge unreachable (connection error while calling ",
              "/lockState", ").">>)]
    ELSE IF IsInstance(exc, "Timeout") THEN
        [branch |-> "Timeout", value |-> ErrorDict(
            <<"Bridge timeout while calling ", "/lockState", ".">>)]
    ELSE IF IsInstance(exc, "HTTPError") THEN
        [branch |-> "HTTPError", value |-> ErrorDict(
            <<"Bridge returned HTTP ">>
            \o HttpErrorText(resp.status, StateUrl)
            \o <<" for ", "/lockState", ".">>)]
    ELSE
        [branch |-> "Exception", value |-> ErrorDict(
            <<"Unexpected error while talking to the bridge (",
              "/lockState", ").">>)]

get_state_except_NoCatchAll(exc, resp) ==
    IF IsInstance(exc, "ConnectionError") THEN
        [branch |-> "ConnectionError", value |-> ErrorDict(
            <<"Bridge unreachable (connection error while calling ",
              "/lockState", ").">>)]
    ELSE IF IsInstance(exc, "Timeout") THEN
        [branch |-> "Timeout", value |-> ErrorDict(
            <<"Bridge timeout while calling ", "/lockState", ".">>)]
    ELSE IF IsInstance(exc, "HTTPError") THEN
        [branch |-> "HTTPError", value |-> ErrorDict(
            <<"Bridge returned HTTP ", StatusStr(resp.status),
              " for ", "/lockState", ".">>)]
    ELSE
        [branch |-> "uncaught", exc |-> exc]

get_state_except(exc, resp) ==
    IF IsInstance(exc, "ConnectionError") THEN
        [branch |-> "ConnectionError", value |-> ErrorDict(
            <<"Bridge unreachable (connection error while calling ",
              "/lockState", ").">>)]
    ELSE IF IsInstance(exc, "Timeout") THEN
        [branch |-> "Timeout", value |-> ErrorDict(
            <<"Bridge timeout while calling ", "/lockState", ".">>)]
    ELSE IF IsInstance(exc, "HTTPError") THEN
        [branch |-> "HTTPError", value |-> ErrorDict(
            <<"Bridge returned HTTP ", StatusStr(resp.status),
              " for ", "/lockState", ".">>)]
    ELSE IF IsInstance(exc, "Exception") THEN
        [branch |-> "Exception", value |-> ErrorDict(
            <<"Unexpected error while talking to the bridge (",
              "/lockState", ").">>)]
    ELSE
        [branch |-> "uncaught", exc |-> exc]

\* get_state(): one requests.get inside try, then the except clauses.
\* The result carries the requests issued, the return statement taken and
\* the value returned.
get_state_Retry(b) ==
    LET ev == RequestsGet(STATE_TIMEOUT, b)
        exc == Raised(ev)
        resp == IF ev.raise = "none" THEN ev.resp ELSE NoReply
        sent == IF exc # "none" /\ IsInstance(exc, "Timeout")
                THEN <<StateRequest, StateRequest>> ELSE <<StateRequest>>
    IN  IF exc = "none"
        THEN [sent |-> sent, ev |-> ev, branch |-> "return",
              value |-> ev.resp.json]
        ELSE [sent |-> sent, ev |-> ev] @@ get_state_except(exc, resp)

get_state(b) ==
    LET ev == RequestsGet(STATE_TIMEOUT, b)
        exc == Raised(ev)
        resp == IF ev.raise = "none" THEN ev.resp ELSE NoReply
    IN  IF exc = "none"
        THEN [sent |-> <<StateRequest>>, ev |-> ev, branch |-> "return",
              value |-> ev.resp.json]
        ELSE [sent |-> <<StateRequest>>, ev |-> ev]
             @@ get_state_except(exc, resp)

\* The except clauses of send_action, in the order written.
send_action_except(exc, resp) ==
    IF IsInstance(exc, "ConnectionError") THEN
        [branch |-> "ConnectionError", value |-> ErrorDict(
            <<"Bridge unreachable (connection error while calling ",
              "/lockAction", ").">>)]
    ELSE IF IsInstance(exc, "Timeout") THEN
        [branch |-> "Timeout", value |-> ErrorDict(
            <<"Bridge timeout while calling ", "/lockAction", ".">>)]
    ELSE IF IsInstance(exc, "HTTPError") THEN
        [branch |-> "HTTPError", value |-> ErrorDict(
            <<"Bridge returned HTTP ", StatusStr(resp.status),
              " for ", "/lockAction", ".">>)]
    ELSE IF IsInstance(exc, "Exception") THEN
        [branch |-> "Exception", value |-> ErrorDict(
            <<"Unexpected error while talking to the bridge (",
              "/lockAction", ").">>)]
    ELSE
        [branch |-> "uncaught", exc |-> exc]

send_action(a, b) ==
    LET ev == RequestsGet(ACTION_TIMEOUT, b)
        exc == Raised(ev)
        resp == IF ev.raise = "none" THEN ev.resp ELSE NoReply
    IN  IF exc = "none"
        THEN [sent |-> <<ActionRequest(a)>>, ev |-> ev, branch |-> "return",
              value |-> ev.resp.json]
        ELSE [sent |-> <<ActionRequest(a)>>, ev |-> ev]
             @@ send_action_except(exc, resp)

(***************************************************************************)
(* Localization strings used by the action route.                          *)
(***************************************************************************)
Langs == {"en", "it"}

STRINGS ==
    [en |-> [unknown_command_msg |-> "Error: unknown command.",
             bridge_error_prefix |-> "Error: ",
             ok_msg_head |-> "OK (batteryCritical=",
             ok_msg_tail |-> ")",
             bridge_response_prefix |-> "Bridge response: ",
             js_label_state |-> "State: ",
             js_label_door |-> "Door: ",
             js_label_battery |-> "Battery: ",
             js_label_last_update |-> "Last update: ",
             js_error_prefix |-> "JS error: "],
     it |-> [unknown_command_msg |-> "Errore: comando sconosciuto.",
             bridge_error_prefix |-> "Errore: ",
             ok_msg_head |-> "OK (batteryCritical=",
             ok_msg_tail |-> ")",
             bridge_response_prefix |-> "Risposta bridge: ",
             js_label_state |-> "Stato: ",
             js_label_door |-> "Porta: ",
             js_label_battery |-> "Batteria: ",
             js_label_last_update |-> "Ultimo aggiornamento: ",
             js_error_prefix |-> "Errore JS: "]]

(***************************************************************************)
(* str() of a parsed JSON value, as Python prints it.                      *)
(***************************************************************************)
NumStr(n) ==
    CASE n = 0 -> "0"
      [] n = 1 -> "1"
      [] n = 2 -> "2"
      [] n = 11 -> "11"
      [] n = 20 -> "20"
      [] n = 21 -> "21"
      [] n = 22 -> "22"
      [] n = 33 -> "33"
      [] n = 40 -> "40"
      [] n = 41 -> "41"
      [] n = 44 -> "44"
      [] n = 100 -> "100"
      [] n = 101 -> "101"
      [] n = -5 -> "-5"

\* Keys in the order the bodies of this model list them.
KeyOrder ==
    <<"success", "batteryCritical", "error", "batteryCharge",
      "batteryChargeState", "chargeLevel", "state", "batteryLevel", "trigger">>

RECURSIVE PyRepr(_)
RECURSIVE PyReprItems(_, _)
PyReprItems(o, i) ==
    IF i > Len(KeyOrder) THEN <<>>
    ELSE IF KeyOrder[i] \in DOMAIN o
         THEN <<"'", KeyOrder[i], "': ">> \o PyRepr(o[KeyOrder[i]]) \o <<", ">>
              \o PyReprItems(o, i + 1)
         ELSE PyReprItems(o, i + 1)

PyRepr(v) ==
    CASE v.t = "num" -> <<NumStr(v.n)>>
      [] v.t = "str" -> <<"'">> \o v.s \o <<"'">>
      [] v.t = "bool" -> IF v.b THEN <<"True">> ELSE <<"False">>
      [] v.t = "null" -> <<"None">>
      [] v.t = "obj" -> <<"{">> \o PyReprItems(v.o, 1) \o <<"}">>

PyStr(v) == IF v.t = "str" THEN v.s ELSE PyRepr(v)

(***************************************************************************)
(* Route /action/<cmd>.                                                    *)
(***************************************************************************)
mapping_WithReserved ==
    [sblocca |-> 1, chiudi |-> 2, apri |-> 3, lockngo |-> 4,
     lockngounlatch |-> 5]

mapping_Swapped == [sblocca |-> 1, chiudi |-> 2, apri |-> 4, lockngo |-> 3]

mapping == [sblocca |-> 1, chiudi |-> 2, apri |-> 3, lockngo |-> 4]

\* `"error" in result`: key test on a dict, substring test on a str,
\* TypeError on a number, a boolean or None.
InRaises(v) == v.t \in {"num", "bool", "null"}

ErrorIn_Truthy(v) ==
    CASE v.t = "obj" -> "error" \in DOMAIN v.o /\ PyTruthy(v.o.error)
      [] v.t = "str" -> \E i \in 1..Len(v.s) : v.s[i] = "error"
      [] OTHER -> FALSE

ErrorIn(v) ==
    CASE v.t = "obj" -> "error" \in DOMAIN v.o
      [] v.t = "str" -> \E i \in 1..Len(v.s) : v.s[i] = "error"
      [] v.t = "list" -> \E i \in 1..Len(v.l) : v.l[i] = Str(<<"error">>)
      [] OTHER -> FALSE

\* result.get(key, default) on a dict.
DictGet(v, k, default) == IF k \in DOMAIN v.o THEN v.o[k] ELSE default

Redirect(key, msg, r) ==
    [http |-> 302, key |-> key, msg |-> msg, sent |-> r.sent,
     called |-> TRUE, ret |-> r]
Crash(r) ==
    [http |-> 500, key |-> "none", msg |-> <<>>, sent |-> r.sent,
     called |-> TRUE, ret |-> r]

\* The part of action() after send_action returned `r`.
action_result(ui, r) ==
    IF r.branch = "uncaught" THEN Crash(r)
    ELSE IF InRaises(r.value) THEN Crash(r)
    ELSE IF ErrorIn(r.value) THEN
        IF IsObj(r.value)
        THEN Redirect("bridge_error_prefix",
                      <<ui.bridge_error_prefix>> \o PyStr(r.value.o.error), r)
        ELSE Crash(r)
    ELSE IF ~IsObj(r.value) THEN Crash(r)
    ELSE IF PyTruthy(DictGet(r.value, "success", Null)) THEN
        Redirect("ok_msg",
                 <<ui.ok_msg_head>>
                 \o PyStr(DictGet(r.value, "batteryCritical", Bool(FALSE)))
                 \o <<ui.ok_msg_tail>>, r)
    ELSE
        Redirect("bridge_response_prefix",
                 <<ui.bridge_response_prefix>> \o PyStr(r.value), r)

action_ForwardUnknown(cmd, lang, b) ==
    LET ui == STRINGS[lang]
    IN  IF cmd \notin DOMAIN mapping
        THEN action_result(ui, send_action(0, b))
        ELSE action_result(ui, send_action(mapping[cmd], b))

action(cmd, lang, b) ==
    LET ui == STRINGS[lang]
    IN  IF cmd \notin DOMAIN mapping
        THEN [http |-> 302, key |-> "unknown_command_msg",
              msg |-> <<ui.unknown_command_msg>>, sent |-> <<>>,
              called |-> FALSE]
        ELSE action_result(ui, send_action(mapping[cmd], b))

\* The four forms of the page and the route each posts to.
Buttons == {"btn_lock", "btn_unlock", "btn_unlatch", "btn_lockngo"}

ButtonRoute(btn) ==
    CASE btn = "btn_lock" -> "chiudi"
      [] btn = "btn_unlock" -> "sblocca"
      [] btn = "btn_unlatch" -> "apri"
      [] btn = "btn_lockngo" -> "lockngo"

\* Command names a client may put in the URL by hand.
TypedCmds == {"unlatch", "lockngounlatch"}

ExposedCmds == {ButtonRoute(btn) : btn \in Buttons}

(***************************************************************************)
(* Route /api/state and the page script that consumes it.                  *)
(***************************************************************************)
\* api_state(): jsonify(get_state()); an exception leaving get_state is
\* answered by Flask with status 500.
api_state(b) ==
    LET r == get_state(b)
    IN  IF r.branch = "uncaught"
        THEN [status |-> 500, ret |-> r]
        ELSE [status |-> 200, data |-> r.value, ret |-> r]

\* data.key in the page script, for data other than null and undefined.
Get(v, k) == IF IsObj(v) /\ k \in DOMAIN v.o THEN v.o[k] ELSE Undefined
TypeofNumber(v) == v.t = "num"

extractBatteryPercent_Truthy(data) ==
    IF JsTruthy(Get(data, "batteryCharge"))
    THEN Get(data, "batteryCharge")
    ELSE IF TypeofNumber(Get(data, "batteryChargeState"))
    THEN Get(data, "batteryChargeState")
    ELSE IF JsTruthy(Get(data, "batteryChargeState"))
            /\ TypeofNumber(Get(Get(data, "batteryChargeState"), "chargeLevel"))
    THEN Get(Get(data, "batteryChargeState"), "chargeLevel")
    ELSE IF TypeofNumber(Get(data, "batteryLevel"))
    THEN Get(data, "batteryLevel")
    ELSE Null

extractBatteryPercent_Clamped(data) ==
    LET v == IF TypeofNumber(Get(data, "batteryCharge"))
             THEN Get(data, "batteryCharge")
             ELSE IF TypeofNumber(Get(data, "batteryChargeState"))
             THEN Get(data, "batteryChargeState")
             ELSE IF JsTruthy(Get(data, "batteryChargeState"))
                     /\ TypeofNumber(Get(Get(data, "batteryChargeState"),
                                         "chargeLevel"))
             THEN Get(Get(data, "batteryChargeState"), "chargeLevel")
             ELSE IF TypeofNumber(Get(data, "batteryLevel"))
             THEN Get(data, "batteryLevel")
             ELSE Null
    IN  IF v = Null THEN Null
        ELSE IF v.n > 100 THEN Num(100)
        ELSE IF v.n < 0 THEN Num(0)
        ELSE v

extractBatteryPercent(data) ==
    IF TypeofNumber(Get(data, "batteryCharge"))
    THEN Get(data, "batteryCharge")
    ELSE IF TypeofNumber(Get(data, "batteryChargeState"))
    THEN Get(data, "batteryChargeState")
    ELSE IF JsTruthy(Get(data, "batteryChargeState"))
            /\ TypeofNumber(Get(Get(data, "batteryChargeState"), "chargeLevel"))
    THEN Get(Get(data, "batteryChargeState"), "chargeLevel")
    ELSE IF TypeofNumber(Get(data, "batteryLevel"))
    THEN Get(data, "batteryLevel")
    ELSE Null

\* extractBatteryStatusLabel(data)
extractBatteryStatusLabel(data) ==
    IF JsTruthy(Get(data, "batteryChargeState"))
       /\ JsTruthy(Get(Get(data, "batteryChargeState"), "state"))
    THEN Get(Get(data, "batteryChargeState"), "state")
    ELSE Null

\* A value joined to a string with +.
JsStr(v) ==
    CASE v.t = "num" -> <<NumStr(v.n)>>
      [] v.t = "str" -> v.s
      [] v.t = "bool" -> IF v.b THEN <<"true">> ELSE <<"false">>
      [] v.t = "null" -> <<"null">>
      [] v.t = "undef" -> <<"undefined">>
      [] v.t = "obj" -> <<"[object Object]">>

\* formatTimestamp(ts): "" for a falsy ts, else the date in it-IT / Europe/Rome
\* form, "Invalid Date" when ts does not parse as a date.
formatTimestamp(ts) ==
    IF ~JsTruthy(ts) THEN <<>>
    ELSE IF ts = Str(<<"2024-05-01T10:00:00+00:00">>)
    THEN <<"1/5/2024, 12:00:00">>
    ELSE IF ts = Num(1) THEN <<"1/1/1970, 01:00:00">>
    ELSE <<"Invalid Date">>

\* batteryClass(battPct, batteryCritical)
batteryClass_StrictBelow(battPct, batteryCritical) ==
    IF batteryCritical.t = "bool" /\ batteryCritical.b THEN "danger"
    ELSE IF battPct.t \in {"null", "undef"} THEN ""
    ELSE IF battPct.n < 20 THEN "danger"
    ELSE IF battPct.n < 40 THEN "warn"
    ELSE "ok"

batteryClass(battPct, batteryCritical) ==
    IF batteryCritical.t = "bool" /\ batteryCritical.b THEN "danger"
    ELSE IF battPct.t \in {"null", "undef"} THEN ""
    ELSE IF battPct.n <= 20 THEN "danger"
    ELSE IF battPct.n <= 40 THEN "warn"
    ELSE "ok"

\* The parts array of buildStateSummary(data), one fragment sequence each.
LockPart(ui, data) ==
    IF JsTruthy(Get(data, "stateName"))
    THEN <<<<ui.js_label_state>> \o JsStr(Get(data, "stateName"))
           \o <<" (state=">> \o JsStr(Get(data, "state")) \o <<")">>>>
    ELSE IF Get(data, "state") # Undefined
    THEN <<<<ui.js_label_state, "state=">> \o JsStr(Get(data, "state"))>>
    ELSE <<>>

DoorPart(ui, data) ==
    IF JsTruthy(Get(data, "doorStateName"))
    THEN <<<<ui.js_label_door>> \o JsStr(Get(data, "doorStateName"))
           \o <<" (doorState=">> \o JsStr(Get(data, "doorState")) \o <<")">>>>
    ELSE <<>>

BatteryPart(ui, data) ==
    LET battPct == extractBatteryPercent(data)
    IN  IF battPct # Null
        THEN <<<<ui.js_label_battery>> \o JsStr(battPct) \o <<"%">>>>
        ELSE IF Get(data, "batteryCritical") # Undefined
        THEN <<<<ui.js_label_battery,
                 IF JsTruthy(Get(data, "batteryCritical"))
                 THEN "CRITICAL" ELSE "OK">>>>
        ELSE <<>>

TimePart(ui, data) ==
    IF JsTruthy(Get(data, "timestamp"))
    THEN <<<<ui.js_label_last_update>>
           \o formatTimestamp(Get(data, "timestamp"))>>
    ELSE <<>>

RECURSIVE Join(_, _)
Join(parts, sep) ==
    IF Len(parts) = 1 THEN parts[1]
    ELSE parts[1] \o <<sep>> \o Join(Tail(parts), sep)

\* buildStateSummary(data)
buildStateSummary(ui, data) ==
    LET parts == LockPart(ui, data) \o DoorPart(ui, data)
                 \o BatteryPart(ui, data) \o TimePart(ui, data)
    IN  IF Len(parts) = 0 THEN <<"No state data available">>
        ELSE Join(parts, " * ")    \* the bullet separator, in ASCII

\* The record refreshState builds from data and prints with JSON.stringify.
Normalized(data) ==
    [state |-> Get(data, "state"),
     stateName |-> Get(data, "stateName"),
     doorState |-> Get(data, "doorState"),
     doorStateName |-> Get(data, "doorStateName"),
     batteryCritical |-> Get(data, "batteryCritical"),
     batteryPercent |-> extractBatteryPercent(data),
     batteryRawField |-> Get(data, "batteryChargeState"),
     batteryStatusLabel |-> extractBatteryStatusLabel(data),
     trigger |-> Get(data, "trigger"),
     timestamp_raw |-> Get(data, "timestamp"),
     timestamp_local |->
        IF JsTruthy(Get(data, "timestamp"))
        THEN Str(formatTimestamp(Get(data, "timestamp"))) ELSE Null]

\* The chips refreshState fills in.
Chips(data) ==
    LET battPct == extractBatteryPercent(data)
        battLabel == extractBatteryStatusLabel(data)
        crit == Get(data, "batteryCritical")
    IN  [lock |->
            IF JsTruthy(Get(data, "stateName"))
            THEN JsStr(Get(data, "stateName")) \o <<" (state=">>
                 \o JsStr(Get(data, "state")) \o <<")">>
            ELSE IF Get(data, "state") # Undefined
            THEN <<"state=">> \o JsStr(Get(data, "state"))
            ELSE <<"-">>,
         door |->
            IF JsTruthy(Get(data, "doorStateName"))
            THEN JsStr(Get(data, "doorStateName")) \o <<" (doorState=">>
                 \o JsStr(Get(data, "doorState")) \o <<")">>
            ELSE IF Get(data, "doorState") # Undefined
            THEN <<"doorState=">> \o JsStr(Get(data, "doorState"))
            ELSE <<"-">>,
         batt |->
            IF battPct # Null THEN JsStr(battPct) \o <<"%">>
            ELSE IF crit # Undefined
            THEN IF JsTruthy(crit) THEN <<"CRITICAL">> ELSE <<"OK">>
            ELSE <<"-">>,
         cls |-> batteryClass(battPct, crit),
         pill |->
            IF JsTruthy(battLabel) THEN JsStr(battLabel)
            ELSE IF crit.t = "bool" /\ crit.b THEN <<"CRITICAL">>
            ELSE <<>>,
         time |->
            IF JsTruthy(Get(data, "timestamp"))
            THEN formatTimestamp(Get(data, "timestamp")) ELSE <<"-">>]

NoChips ==
    [lock |-> <<"-">>, door |-> <<"-">>, batt |-> <<"-">>, cls |-> "",
     pill |-> <<>>, time |-> <<"-">>]

\* refreshState(): what the page shows for the answer `res` of /api/state.
refreshState(res) ==
    LET ui == STRINGS[DEFAULT_LANG]
    IN  IF res.status # 200
        THEN [view |-> "http_error",
              text |-> <<ui.bridge_error_prefix, "HTTP ", "500",
                         " from /api/state">>,
              chips |-> NoChips]
        ELSE IF res.data.t = "null"
        THEN [view |-> "js_error",
              text |-> <<ui.js_error_prefix, "TypeError">>,
              chips |-> NoChips]
        ELSE IF JsTruthy(Get(res.data, "error"))
        THEN [view |-> "bridge_error",
              text |-> <<ui.bridge_error_prefix>>
                       \o JsStr(Get(res.data, "error")),
              chips |-> NoChips]
        ELSE [view |-> "shown",
              text |-> buildStateSummary(ui, res.data),
              battPct |-> extractBatteryPercent(res.data),
              normalized |-> Normalized(res.data),
              chips |-> Chips(res.data)]

(***************************************************************************)
(* What the bridge may do with a request.                                  *)
(***************************************************************************)
Delays == {5, 15, 25}

OptField(k, vals) == {<<>>} \cup {[x \in {k} |-> v] : v \in vals}

BatteryBodies ==
    {Obj(a @@ b @@ c) :
        a \in OptField("batteryCharge", {Num(0), Num(11), Str(<<"11">>)}),
        b \in OptField("batteryChargeState",
                       {Num(22), Null, Obj([chargeLevel |-> Num(33)]),
                        Obj([chargeLevel |-> Str(<<"33">>)]),
                        Obj([state |-> Str(<<"ok">>)])}),
        c \in OptField("batteryLevel", {Num(44), Str(<<"44">>)})}

\* Battery levels around the class boundaries and outside 0..100, with and
\* without the critical flag.
SeverityBodies ==
    {Obj(a @@ c) :
        a \in OptField("batteryCharge",
                       {Num(20), Num(21), Num(40), Num(41), Num(100),
                        Num(101), Num(-5)}),
        c \in OptField("batteryCritical", {Bool(TRUE), Bool(FALSE)})}

\* Lock, door and timestamp fields, each present or absent.
SummaryBodies ==
    {Obj(a @@ b @@ c @@ d @@ e) :
        a \in OptField("stateName", {Str(<<"locked">>)}),
        b \in OptField("state", {Num(1)}),
        c \in OptField("doorStateName", {Str(<<"door closed">>)}),
        d \in OptField("doorState", {Num(2)}),
        e \in OptField("timestamp", {Str(<<"2024-05-01T10:00:00+00:00">>)})}

\* All canonical fields at once, and fields of the wrong type.
MixedBodies ==
    {Obj([state |-> Num(1), stateName |-> Str(<<"locked">>),
          doorState |-> Num(2), doorStateName |-> Str(<<"door closed">>),
          batteryCharge |-> Num(44), batteryCritical |-> Bool(FALSE),
          batteryChargeState |->
              Obj([chargeLevel |-> Num(33), state |-> Str(<<"ok">>)]),
          timestamp |-> Str(<<"2024-05-01T10:00:00+00:00">>),
          trigger |-> Num(0)]),
     Obj([state |-> Str(<<"locked">>), stateName |-> Num(0),
          doorStateName |-> Null, batteryCritical |-> Str(<<"yes">>),
          timestamp |-> Num(1)]),
     Obj([timestamp |-> Str(<<"yesterday">>), batteryChargeState |-> Null]),
     Bool(FALSE)}

StateBodies ==
    BatteryBodies \cup SeverityBodies \cup SummaryBodies \cup MixedBodies
    \cup {Obj([trigger |-> Num(0)]),
          Obj([trigger |-> Num(0), batteryLevel |-> Num(44)]),
          Obj([error |-> Str(<<"lock offline">>)]),
          Obj([error |-> Str(<<>>), batteryCharge |-> Num(11)]),
          Null, Num(1), Str(<<"error">>)}

ActionBodies ==
    {Obj([success |-> Bool(TRUE)]),
     Obj([success |-> Bool(TRUE), batteryCritical |-> Bool(TRUE)]),
     Obj([success |-> Bool(FALSE)]),
     EmptyObj,
     Obj([error |-> Str(<<"lock busy">>)]),
     Obj([success |-> Bool(TRUE), error |-> Null]),
     Null, Num(1), Str(<<"error">>), Str(<<"done">>),
     List(<<Str(<<"error">>)>>), List(<<>>)}

Replies(bodies) ==
    {Reply(200, body) : body \in bodies}
    \cup {Reply(s, EmptyObj) : s \in Statuses}
    \cup {Garbled(s) : s \in Statuses}

Upstream(bodies) ==
    {Behaviour("refused", 0, 0, "ok", NoReply),
     Behaviour("up", 5, 5, "broken", NoReply)}
    \cup {Behaviour("up", d, 5, "ok", Reply(200, EmptyObj)) : d \in Delays}
    \cup {Behaviour("up", 5, d, "ok", Reply(200, EmptyObj)) : d \in Delays}
    \cup {Behaviour("up", 5, 5, "ok", p) : p \in Replies(bodies)}

StateUpstream == Upstream(StateBodies)
ActionUpstream == Upstream(ActionBodies)

(***************************************************************************)
(* The state machine.                                                      *)
(***************************************************************************)
Init ==
    /\ TOKEN \in Tokens
    /\ wire = <<>>
    /\ calls = 0
    /\ served = 0
    /\ recognised = 0
    /\ cur = [op |-> "idle"]

\* The page polls: GET /api/state, then refreshState on the answer.
RefreshState(b) ==
    /\ served < MaxCalls
    /\ LET res == api_state(b)
       IN  /\ wire' = wire \o res.ret.sent
           /\ cur' = [op |-> "refreshState", res |-> res,
                      page |-> refreshState(res)]
    /\ calls' = calls + 1
    /\ served' = served + 1
    /\ UNCHANGED <<TOKEN, recognised>>

\* POST /action/<cmd>?lang=<lang>
Dispatch(via, cmd, lang, b) ==
    /\ served < MaxCalls
    /\ LET out == action(cmd, lang, b)
       IN  /\ wire' = wire \o out.sent
           /\ calls' = calls + (IF out.called THEN 1 ELSE 0)
           /\ cur' = [op |-> "action", via |-> via, cmd |-> cmd,
                      lang |-> lang, out |-> out]
    /\ recognised' = recognised + (IF cmd \in ExposedCmds THEN 1 ELSE 0)
    /\ served' = served + 1
    /\ UNCHANGED TOKEN

ClickButton(btn, lang, b) == Dispatch(btn, ButtonRoute(btn), lang, b)

PostAction(cmd, lang, b) == Dispatch("url", cmd, lang, b)

Next ==
    \/ \E b \in StateUpstream : RefreshState(b)
    \/ \E btn \in Buttons, lang \in Langs, b \in ActionUpstream :
          ClickButton(btn, lang, b)
    \/ \E cmd \in TypedCmds, lang \in Langs, b \in ActionUpstream :
          PostAction(cmd, lang, b)

Spec == Init /\ [][Next]_vars

(***************************************************************************)
(* Properties.                                                             *)
(***************************************************************************)
\* The last request served made a get_state / send_action call; its result.
MadeCall == cur.op = "refreshState" \/ (cur.op = "action" /\ cur.out.called)
LastRet == IF cur.op = "refreshState" THEN cur.res.ret ELSE cur.out.ret
LastPath == IF cur.op = "refreshState" THEN "/lockState" ELSE "/lockAction"
LastUrl ==
    IF cur.op = "refreshState" THEN StateUrl
    ELSE ActionUrl(cur.out.sent[1].action)
Failed(r) == r.branch \in {"ConnectionError", "Timeout", "HTTPError", "Exception"}
ErrText(r) == r.value.o.error.s
Range(seq) == {seq[i] : i \in 1..Len(seq)}
ActionsOnWire == {i \in 1..Len(wire) : wire[i].path = "/lockAction"}
Delivered(r) == r.ev.raise = "none"

\* C1: a dispatch whose command name is outside the exposed set ends in the
\* "unknown command" outcome without any upstream request, and over any
\* sequence of dispatches the number of /lockAction requests issued equals
\* the number of dispatches with an exposed name.
C1_UnknownNeverForwarded ==
    /\ Cardinality(ActionsOnWire) = recognised
    /\ (cur.op = "action" /\ cur.cmd \notin ExposedCmds) =>
          /\ cur.out.key = "unknown_command_msg"
          /\ cur.out.msg = <<STRINGS[cur.lang].unknown_command_msg>>
          /\ cur.out.http = 302
          /\ cur.out.sent = <<>>
          /\ ~cur.out.called

C1_Witness ==
    /\ cur.op = "action"
    /\ cur.cmd = "lockngounlatch"
    /\ recognised = 1
    /\ Len(wire) = 1
    /\ served = 2

\* The literal text of the error messages, and what an error value may be
\* made of: that text, the endpoint name and the numeric status.
FixedFragments ==
    {"Bridge unreachable (connection error while calling ", ").",
     "Bridge timeout while calling ", ".",
     "Bridge returned HTTP ", " for ",
     "Unexpected error while talking to the bridge ("}
AllowedFragments(path, r) ==
    FixedFragments \cup {path}
    \cup (IF Delivered(r) THEN {StatusStr(r.ev.resp.status)} ELSE {})

\* C2: whatever way a get_state / send_action call fails, the error value
\* it returns holds one key, "error", whose text is made only of the fixed
\* message text, the endpoint name and the numeric status; neither the
\* token nor any other piece of the request URL or query string is in it.
C2_ErrorsCarryNoSecret ==
    (MadeCall /\ Failed(LastRet)) =>
        /\ DOMAIN LastRet.value.o = {"error"}
        /\ Range(ErrText(LastRet)) \subseteq AllowedFragments(LastPath, LastRet)
        /\ TOKEN \notin Range(ErrText(LastRet))
        /\ Range(ErrText(LastRet)) \cap (Range(LastUrl) \ {LastPath}) = {}

C2_Witness ==
    /\ cur.op = "refreshState"
    /\ cur.res.ret.branch = "HTTPError"
    /\ cur.res.ret.ev.resp.status = 500
    /\ "500" \in Range(ErrText(cur.res.ret))
    /\ TOKEN = "s3cr3tB"

\* The result is Failed(UpstreamHttpError{status}) for the status delivered.
IsHttpError(path, r) ==
    /\ r.branch = "HTTPError"
    /\ ErrText(r) = <<"Bridge returned HTTP ", StatusStr(r.ev.resp.status),
                      " for ", path, ".">>

\* C3 as stated: every delivered response whose status is outside 200-299
\* (1xx and 3xx included) yields Failed(UpstreamHttpError{status}).
C3_Original ==
    (MadeCall /\ Delivered(LastRet)
       /\ ~(200 <= LastRet.ev.resp.status /\ LastRet.ev.resp.status <= 299))
    => IsHttpError(LastPath, LastRet)

\* C3: every delivered response whose status is in 400-599 yields
\* Failed(UpstreamHttpError{status}) with exactly that status, and no other
\* response does; a delivered response with any other status outside
\* 200-299 (1xx, 3xx) is handled as a 2xx one is: its parsed body is
\* returned, or Unexpected when the body does not parse.
C3_HttpErrorFor4xx5xx ==
    (MadeCall /\ Delivered(LastRet)) =>
        LET st == LastRet.ev.resp.status
        IN  /\ (400 <= st /\ st <= 599) => IsHttpError(LastPath, LastRet)
            /\ ~(400 <= st /\ st <= 599) =>
                  /\ LastRet.ev.resp.parse =>
                        /\ LastRet.branch = "return"
                        /\ LastRet.value = LastRet.ev.resp.json
                  /\ ~LastRet.ev.resp.parse => LastRet.branch = "Exception"

C3_Witness ==
    /\ cur.op = "action"
    /\ cur.out.called
    /\ Delivered(cur.out.ret)
    /\ cur.out.ret.ev.resp.status = 404
    /\ IsHttpError("/lockAction", cur.out.ret)

\* C4: a call whose deadline expires, while connecting or while reading,
\* returns Failed(Timeout), and a connection failure returns
\* Failed(Unreachable); the two are never exchanged.
C4_TimeoutVsUnreachable ==
    MadeCall =>
        /\ LastRet.ev.raise \in {"ConnectTimeout", "ReadTimeout"}
              => LastRet.branch = "Timeout"
        /\ LastRet.ev.raise = "ConnectionError"
              => LastRet.branch = "ConnectionError"

\* C5: every get_state / send_action call returns exactly one value: the
\* parsed body, or an error value of one kind among Unreachable, Timeout,
\* UpstreamHttpError, Unexpected; nothing the bridge does leaves the call as
\* an exception, a 2xx response with an unparseable body included
\* (Unexpected).
C5_ClosedTaxonomy ==
    MadeCall =>
        /\ LastRet.branch # "uncaught"
        /\ LastRet.branch \in
              {"return", "ConnectionError", "Timeout", "HTTPError", "Exception"}
        /\ LastRet.branch = "return" =>
              /\ Delivered(LastRet)
              /\ LastRet.ev.resp.parse
              /\ LastRet.value = LastRet.ev.resp.json
        /\ Failed(LastRet) => DOMAIN LastRet.value.o = {"error"}
        /\ (Delivered(LastRet) /\ ~LastRet.ev.resp.parse
              /\ LastRet.ev.resp.status = 200)
              => LastRet.branch = "Exception"
        /\ (LastRet.ev.raise = "ChunkedEncodingError")
              => LastRet.branch = "Exception"

C5_Witness ==
    /\ cur.op = "refreshState"
    /\ Delivered(cur.res.ret)
    /\ cur.res.ret.ev.resp.status = 200
    /\ ~cur.res.ret.ev.resp.parse
    /\ cur.res.ret.branch = "Exception"
    /\ cur.res.status = 200

\* What the caller makes of the result: a failure, for the action route
\* (the error-prefixed message) and for the page (the error line).
SeenAsFailed ==
    IF cur.op = "action" THEN cur.out.key = "bridge_error_prefix"
    ELSE cur.page.view = "bridge_error"

\* C6 as stated: the caller sees a failure exactly when the upstream call
\* failed; a parsed body that is an object is treated as Ok whatever its
\* keys, an "error" key included.
C6_Original ==
    (MadeCall /\ (Failed(LastRet) \/ IsObj(LastRet.value)))
    => (SeenAsFailed <=> Failed(LastRet))

\* C6: the result is one JSON value in which the "error" key tells a failure:
\* the caller sees a failure exactly when the upstream call failed or the
\* parsed body is an object that itself has an "error" key (for the page:
\* an "error" key with a truthy value); every other parsed object is
\* delivered unchanged and treated as Ok.
C6_ErrorKeyDiscriminates ==
    (MadeCall /\ (Failed(LastRet) \/ IsObj(LastRet.value))) =>
        /\ cur.op = "action" =>
              (SeenAsFailed <=>
                  (Failed(LastRet) \/ "error" \in DOMAIN LastRet.value.o))
        /\ cur.op = "refreshState" =>
              /\ cur.res.data = LastRet.value
              /\ SeenAsFailed <=>
                    \/ Failed(LastRet)
                    \/ /\ "error" \in DOMAIN LastRet.value.o
                       /\ JsTruthy(LastRet.value.o.error)

C6_Witness ==
    /\ cur.op = "action"
    /\ cur.out.called
    /\ cur.out.ret.branch = "return"
    /\ cur.out.ret.value = Obj([success |-> Bool(TRUE), error |-> Null])
    /\ cur.out.key = "bridge_error_prefix"

\* The wire code of each exposed command: unlock, lock, unlatch, lock-and-go.
WireCode(btn) ==
    CASE btn = "btn_unlock" -> 1
      [] btn = "btn_lock" -> 2
      [] btn = "btn_unlatch" -> 3
      [] btn = "btn_lockngo" -> 4

C8_OnlyExposedCodesSent ==
    \A i \in 1..Len(wire) :
        /\ wire[i].path = "/lockAction" => wire[i].action \in {1, 2, 3, 4}
        /\ wire[i].action # 5

C8_Witness ==
    /\ cur.op = "action"
    /\ cur.cmd = "lockngounlatch"
    /\ Len(wire) = 1
    /\ wire[1] = ActionRequest(4)

Encodings(data) ==
    <<IF "batteryCharge" \in DOMAIN data.o
      THEN data.o.batteryCharge ELSE Undefined,
      IF "batteryChargeState" \in DOMAIN data.o
      THEN data.o.batteryChargeState ELSE Undefined,
      IF /\ "batteryChargeState" \in DOMAIN data.o
         /\ data.o.batteryChargeState.t = "obj"
         /\ "chargeLevel" \in DOMAIN data.o.batteryChargeState.o
      THEN data.o.batteryChargeState.o.chargeLevel ELSE Undefined,
      IF "batteryLevel" \in DOMAIN data.o
      THEN data.o.batteryLevel ELSE Undefined>>
Numeric(data) == {i \in 1..4 : Encodings(data)[i].t = "num"}
FirstNumeric(data) ==
    CHOOSE i \in Numeric(data) : \A j \in Numeric(data) : i <= j

\* C10: for every raw object extractBatteryPercent returns the value of the
\* first encoding, in the order battery charge, battery charge state, charge
\* level of a nested battery charge state, battery level, that is a number,
\* and is absent exactly when none of the four is a number.
C10_BatteryPriority ==
    (cur.op = "refreshState" /\ cur.page.view = "shown" /\ IsObj(cur.res.data))
    => LET data == cur.res.data
       IN  /\ Numeric(data) # {} =>
                 cur.page.battPct = Encodings(data)[FirstNumeric(data)]
           /\ Numeric(data) = {} <=> cur.page.battPct = Null

C10_Witness ==
    /\ cur.op = "refreshState"
    /\ cur.page.view = "shown"
    /\ cur.res.data =
          Obj([batteryCharge |-> Str(<<"11">>),
               batteryChargeState |-> Obj([chargeLevel |-> Num(33)]),
               batteryLevel |-> Num(44)])
    /\ cur.page.battPct = Num(33)

\* The raw body the page shows, and what the page made of it.
Shown == cur.op = "refreshState" /\ cur.page.view = "shown"
Critical == Get(cur.res.data, "batteryCritical") = Bool(TRUE)

\* C11: the battery class depends on the percent and the critical flag
\* alone: critical = true gives danger for every percent (100 and absent
\* included); otherwise an absent percent gives no class, percent <= 20
\* danger, 20 < percent <= 40 warn, percent > 40 ok; 20 -> danger,
\* 21 -> warn, 40 -> warn, 41 -> ok.
C11_SeverityBoundaries ==
    Shown =>
        LET p == cur.page.battPct
            cls == cur.page.chips.cls
        IN  /\ Critical => cls = "danger"
            /\ (~Critical /\ p = Null) => cls = ""
            /\ (~Critical /\ p # Null) =>
                  /\ p.n <= 20 => cls = "danger"
                  /\ (20 < p.n /\ p.n <= 40) => cls = "warn"
                  /\ p.n > 40 => cls = "ok"
            /\ (~Critical /\ p = Num(20)) => cls = "danger"
            /\ (~Critical /\ p = Num(21)) => cls = "warn"
            /\ (~Critical /\ p = Num(40)) => cls = "warn"
            /\ (~Critical /\ p = Num(41)) => cls = "ok"

C11_Witness ==
    /\ Shown
    /\ Critical
    /\ cur.page.battPct = Num(100)
    /\ cur.page.chips.cls = "danger"
    /\ served = 2

\* A field of the raw object is present: the key is there and not null.
Present(data, k) == k \in DOMAIN data.o /\ data.o[k] # Null
LockGroup(data) == Present(data, "stateName") \/ Present(data, "state")
DoorGroup(data) == Present(data, "doorStateName") \/ Present(data, "doorState")
BatteryGroup(data) ==
    extractBatteryPercent(data) # Null \/ Present(data, "batteryCritical")
TimeGroup(data) == Present(data, "timestamp")
Position(text, label) == CHOOSE i \in 1..Len(text) : text[i] = label
InOrder(text, labels) ==
    \A i, j \in 1..Len(labels) :
        (i < j /\ labels[i] \in Range(text) /\ labels[j] \in Range(text))
        => Position(text, labels[i]) < Position(text, labels[j])

\* C12: the summary holds one fragment for each group present in the input
\* (lock: stateName or state; door: doorStateName or doorState; battery: a
\* percent or the critical flag; timestamp), in the order lock, door,
\* battery, timestamp, and is the "no data" sentinel exactly when all four
\* groups are absent.
C12_SummaryGroups ==
    (Shown /\ IsObj(cur.res.data)) =>
        LET data == cur.res.data
            text == cur.page.text
            ui == STRINGS[DEFAULT_LANG]
        IN  /\ LockGroup(data) <=> ui.js_label_state \in Range(text)
            /\ DoorGroup(data) <=> ui.js_label_door \in Range(text)
            /\ BatteryGroup(data) <=> ui.js_label_battery \in Range(text)
            /\ TimeGroup(data) <=> ui.js_label_last_update \in Range(text)
            /\ InOrder(text, <<ui.js_label_state, ui.js_label_door,
                               ui.js_label_battery, ui.js_label_last_update>>)
            /\ text = <<"No state data available">> <=>
                  ~(LockGroup(data) \/ DoorGroup(data)
                    \/ BatteryGroup(data) \/ TimeGroup(data))

\* The body get_state parsed and returned, unless it is an object whose
\* truthy "error" key makes the page take it as a failure.
RawDelivered ==
    /\ cur.op = "refreshState"
    /\ cur.res.ret.branch = "return"
    /\ ~(IsObj(cur.res.data) /\ JsTruthy(Get(cur.res.data, "error")))

\* C13: for every raw value delivered (an empty object, fields absent or of
\* the wrong type, a null or non-object battery charge state, a body that
\* is no object at all) the page builds the normalized record, and each
\* field of it is taken from its own raw field whatever the others are.
C13_NormalizeNeverFails ==
    RawDelivered =>
        /\ cur.page.view = "shown"
        /\ LET data == cur.res.data
               n == cur.page.normalized
           IN  /\ n.state = Get(data, "state")
               /\ n.stateName = Get(data, "stateName")
               /\ n.doorState = Get(data, "doorState")
               /\ n.doorStateName = Get(data, "doorStateName")
               /\ n.batteryCritical = Get(data, "batteryCritical")
               /\ n.timestamp_raw = Get(data, "timestamp")
               /\ n.batteryPercent = cur.page.battPct
               /\ ~IsObj(data) =>
                     /\ n.batteryPercent = Null
                     /\ n.batteryStatusLabel = Null

\* C14 as stated: batteryPercent is absent or a number within [0,100].
C14_Original ==
    Shown =>
        \/ cur.page.normalized.batteryPercent = Null
        \/ /\ 0 <= cur.page.normalized.batteryPercent.n
           /\ cur.page.normalized.batteryPercent.n <= 100

InRange(v) == 0 <= v.n /\ v.n <= 100

\* C14: batteryPercent is absent or exactly the number the upstream gave in
\* the first numeric encoding, unchanged; it is within [0,100] whenever
\* that number is, and a number outside the range (negative or above 100)
\* appears as batteryPercent as it is.
C14_PercentIsUpstreamNumber ==
    (Shown /\ IsObj(cur.res.data)) =>
        LET data == cur.res.data
            bp == cur.page.normalized.batteryPercent
        IN  /\ bp = Null \/ bp.t = "num"
            /\ bp # Null =>
                  /\ Numeric(data) # {}
                  /\ bp = Encodings(data)[FirstNumeric(data)]
            /\ (\A i \in Numeric(data) : InRange(Encodings(data)[i]))
                  => (bp = Null \/ InRange(bp))
            /\ (Numeric(data) # {}
                /\ ~InRange(Encodings(data)[FirstNumeric(data)]))
                  => (bp # Null /\ ~InRange(bp))

C14_Witness ==
    /\ Shown
    /\ cur.res.data = Obj([batteryCharge |-> Num(101)])
    /\ cur.page.normalized.batteryPercent = Num(101)
    /\ cur.page.chips.batt = <<"101", "%">>

\* The parsed body send_action returned, when the route takes it as Ok.
OkBody(r) ==
    r.branch = "return" /\ ~(IsObj(r.value) /\ "error" \in DOMAIN r.value.o)

\* C15: a dispatch with a recognised command ends with a non-empty message
\* whatever send_action returned: the error-prefixed message for a failure,
\* the OK message with batteryCritical (False when absent) for an Ok body
\* whose success flag is true, the bridge-response message for every other
\* Ok body (success false or missing, or a body that is null, a number, a
\* string or a list); it never ends in an unhandled failure.
C15_AlwaysOutcomeMessage ==
    (cur.op = "action" /\ cur.cmd \in ExposedCmds) =>
        LET out == cur.out
            ui == STRINGS[cur.lang]
        IN  /\ out.called
            /\ out.http = 302
            /\ out.msg # <<>>
            /\ Failed(out.ret) =>
                  /\ out.key = "bridge_error_prefix"
                  /\ out.msg[1] = ui.bridge_error_prefix
            /\ (OkBody(out.ret) /\ IsObj(out.ret.value)
                /\ Get(out.ret.value, "success") = Bool(TRUE)) =>
                  /\ out.key = "ok_msg"
                  /\ out.msg =
                        <<ui.ok_msg_head,
                          IF Get(out.ret.value, "batteryCritical") = Bool(TRUE)
                          THEN "True" ELSE "False",
                          ui.ok_msg_tail>>
            /\ (OkBody(out.ret)
                /\ ~(IsObj(out.ret.value)
                     /\ Get(out.ret.value, "success") = Bool(TRUE))) =>
                  /\ out.key = "bridge_response_prefix"
                  /\ out.msg[1] = ui.bridge_response_prefix

=============================================================================
